---- MODULE Spec2Model ----
(***************************************************************************)
(* Predator / prey aposematism model: the Predator agent                   *)
(* (src/src/models/predator_model.py) acting on one Prey object            *)
(* (src/src/models/prey_model.py).                                         *)
(*                                                                         *)
(* Floats are exact rationals <<numerator, denominator>>.  A Python        *)
(* exception is the name of its class in call.ret; a normal return is      *)
(* "True", "False" or "None".                                              *)
(*                                                                         *)
(* predator_model.py line 117 and 118 lack the closing parenthesis of      *)
(* max(...); the statements are read with it in place.                     *)
(***************************************************************************)
EXTENDS Integers, Sequences, FiniteSets, TLC

VARIABLES predator, prey, call, ticks, env

vars == <<predator, prey, call, ticks, env>>

(* ------------------------------ bounds -------------------------------- *)

MaxSick == 2    \* sickness_duration is drawn from 0..MaxSick
MaxDist == 1    \* visual_range and camo_aposematic_distance are drawn from 0..MaxDist,
                \* the distance argument from 0..MaxDist + 1
MaxMem == 1     \* memory_size is drawn from 0..MaxMem (0..MaxMem + 1 in LearnSpec, DecaySpec)
MaxEaten == 1   \* hunt is not called once prey_eaten = MaxEaten;
                \* min_prey_eaten is drawn from 0..MaxEaten
MaxDecay == 2   \* learn is not called once it has decayed the traits MaxDecay times
MaxBelow == 1   \* move is not called once sick_timer = -MaxBelow
MaxGrid == 2    \* grid_size is drawn from 1..MaxGrid (1..MaxGrid + 1 in MoveSpec)
MaxAgents == 2  \* an Environment has 0..MaxAgents predators and 0..MaxAgents prey
MaxPath == 2    \* Prey.move is not called once path holds MaxPath positions

(* ----------------------------- rationals ------------------------------ *)

Lt(a, b) == a[1] * b[2] < b[1] * a[2]

Le(a, b) == a[1] * b[2] <= b[1] * a[2]

Zero == <<0, 10>>

Half == <<5, 10>>

One == <<10, 10>>

\* x * 0.9; the float 0.0 stays 0.0
Times09(x) == IF x[1] = 0 THEN x ELSE <<9 * x[1], 10 * x[2]>>

\* the values random.random() returns lie in [0, 1)
RandomValues == {Zero, <<9, 10>>}

\* the values random.randint(-1, 1) returns
RandomSteps == {-1, 0, 1}

Outcomes == {"satisfied", "death", "sickness"}

Max(a, b) == IF a >= b THEN a ELSE b

Min(a, b) == IF a <= b THEN a ELSE b

(* ----------------------------- constructors --------------------------- *)

NewPredator(hunting_success, learning_rate, reproduction_rate, detection_probability, visual_range, memory_size, toxicity_threshold, sickness_duration) ==
    [ hunting_success       |-> hunting_success,
      learning_rate         |-> learning_rate,
      reproduction_rate     |-> reproduction_rate,
      detection_probability |-> detection_probability,
      visual_range          |-> visual_range,
      memory_size           |-> memory_size,
      toxicity_threshold    |-> toxicity_threshold,
      sickness_duration     |-> sickness_duration,
      prey_eaten            |-> 0,
      memory                |-> << >>,
      position              |-> <<0, 0>>,
      sick_timer            |-> 0 ]

NewPrey(camouflage, aposematic, aposematic_pattern, toxicity, camo_aposematic_distance, movement_probability, evolution_threshold, evolution_probability, reproduction_rate) ==
    [ camouflage               |-> camouflage,
      aposematic               |-> aposematic,
      aposematic_pattern       |-> aposematic_pattern,
      toxicity                 |-> toxicity,
      camo_aposematic_distance |-> camo_aposematic_distance,
      movement_probability     |-> movement_probability,
      evolution_threshold      |-> evolution_threshold,
      evolution_probability    |-> evolution_probability,
      reproduction_rate        |-> reproduction_rate,
      path                     |-> << >>,
      outcome                  |-> "" ]

\* the trait vectors the predators are constructed with
Predators ==
    { NewPredator(hs, lr, Half, dp, vr, ms, tt, sd) :
        hs \in {Half, One}, lr \in {Half}, dp \in {Half},
        vr \in 0..MaxDist, ms \in 0..MaxMem, tt \in {Zero, Half},
        sd \in 0..MaxSick }

\* the trait vectors the prey are constructed with
Preys ==
    { NewPrey(Half, ap, pat, Half, cd, Half, Half, Half, Half) :
        ap \in BOOLEAN, pat \in {Zero, Half, One}, cd \in 0..MaxDist }

\* the record of the last call: the operation, its arguments, what it returned
Call(op, ret, distance, grid_size, min_prey_eaten, prey_pattern, outcome) ==
    [ op |-> op, ret |-> ret, distance |-> distance, grid_size |-> grid_size,
      min_prey_eaten |-> min_prey_eaten, prey_pattern |-> prey_pattern,
      outcome |-> outcome, predation_pressure |-> Zero ]

NoCall == Call("init", "None", -1, -1, -1, Zero, "")

(* ------------------------- Predator's methods ------------------------- *)

\* move without the upper clamp at grid_size - 1
move_unclamped(self, grid_size, dx, dy) ==
    IF self.sick_timer > 0
    THEN [self EXCEPT !.position =
            << Max(0, self.position[1] + dx), Max(0, self.position[2] + dy) >>]
    ELSE [self EXCEPT !.sick_timer = @ - 1]

move(self, grid_size, dx, dy) ==
    IF self.sick_timer > 0
    THEN [self EXCEPT !.position =
            << Max(0, Min(self.position[1] + dx, grid_size - 1)),
               Max(0, Min(self.position[2] + dy, grid_size - 1)) >>]
    ELSE [self EXCEPT !.sick_timer = @ - 1]

\* detect_prey with the warning range ending just below camo_aposematic_distance
detect_prey_strict(self, p, distance) ==
    IF distance <= self.visual_range
    THEN IF distance >= p.camo_aposematic_distance
         THEN "TypeError"
         ELSE "True"
    ELSE "False"

\* detect_prey with the warning range tested before the visual range
detect_prey_warning_first(self, p, distance) ==
    IF distance <= p.camo_aposematic_distance
    THEN "True"
    ELSE IF distance <= self.visual_range
         THEN "TypeError"
         ELSE "False"

\* random.randint() is called without its two arguments: TypeError
detect_prey(self, p, distance) ==
    IF distance <= self.visual_range
    THEN IF distance > p.camo_aposematic_distance
         THEN "TypeError"
         ELSE "True"
    ELSE "False"

\* avoid_prey without the test of prey.aposematic
avoid_prey_any_prey(self, p) ==
    IF Le(self.toxicity_threshold, p.aposematic_pattern)
    THEN TRUE
    ELSE FALSE

avoid_prey(self, p) ==
    IF p.aposematic /\ Le(self.toxicity_threshold, p.aposematic_pattern)
    THEN TRUE
    ELSE FALSE

\* hunt without the detection step
hunt_undetected(self, p, distance, r) ==
    IF avoid_prey(self, p)
    THEN [self |-> self, ret |-> "False"]
    ELSE IF Lt(r, self.hunting_success)
         THEN [self |-> [self EXCEPT !.prey_eaten = @ + 1], ret |-> "True"]
         ELSE [self |-> self, ret |-> "False"]

\* hunt without the avoidance step
hunt_unavoided(self, p, distance, r) ==
    LET detected == detect_prey(self, p, distance) IN
    IF detected = "TypeError"
    THEN [self |-> self, ret |-> "TypeError"]
    ELSE IF detected = "True" /\ Lt(r, self.hunting_success)
         THEN [self |-> [self EXCEPT !.prey_eaten = @ + 1], ret |-> "True"]
         ELSE [self |-> self, ret |-> "False"]

\* hunt that makes the predator sick on a successful hunt
hunt_then_sick(self, p, distance, r) ==
    LET res == hunt_unavoided(self, p, distance, r) IN
    IF res.ret = "True" /\ ~avoid_prey(self, p)
    THEN [self |-> [res.self EXCEPT !.sick_timer = self.sickness_duration], ret |-> "True"]
    ELSE [self |-> self, ret |-> IF res.ret = "TypeError" THEN "TypeError" ELSE "False"]

\* r is the value of random.random()
hunt(self, p, distance, r) ==
    LET detected == detect_prey(self, p, distance) IN
    IF detected = "TypeError"
    THEN [self |-> self, ret |-> "TypeError"]
    ELSE IF detected = "True"
         THEN IF avoid_prey(self, p)
              THEN [self |-> self, ret |-> "False"]
              ELSE IF Lt(r, self.hunting_success)
                   THEN [self |-> [self EXCEPT !.prey_eaten = @ + 1], ret |-> "True"]
                   ELSE [self |-> self, ret |-> "False"]
         ELSE [self |-> self, ret |-> "False"]

Satisfied(memory) == Cardinality({i \in 1..Len(memory) : memory[i][2] = "satisfied"})

\* learn evicting the newest entry (pop() for pop(0))
learn_evict_newest(self, prey_pattern, outcome) ==
    LET appended == Append(self.memory, <<prey_pattern, outcome>>)
        memory   == IF Len(appended) > self.memory_size
                    THEN SubSeq(appended, 1, Len(appended) - 1)
                    ELSE appended
        kept     == [self EXCEPT !.memory = memory]
    IN  IF Len(memory) = self.memory_size
        THEN IF self.memory_size = 0
             THEN [self |-> kept, ret |-> "ZeroDivisionError"]
             ELSE IF Lt(<<Satisfied(memory), self.memory_size>>, self.learning_rate)
                  THEN [self |-> [kept EXCEPT
                                    !.hunting_success = Times09(@),
                                    !.toxicity_threshold = Times09(@)],
                        ret |-> "None"]
                  ELSE [self |-> kept, ret |-> "None"]
        ELSE [self |-> kept, ret |-> "None"]

\* learn decaying also when success_rate equals learning_rate (<= for <)
learn_decay_at_rate(self, prey_pattern, outcome) ==
    LET appended == Append(self.memory, <<prey_pattern, outcome>>)
        memory   == IF Len(appended) > self.memory_size THEN Tail(appended) ELSE appended
        kept     == [self EXCEPT !.memory = memory]
    IN  IF Len(memory) = self.memory_size
        THEN IF self.memory_size = 0
             THEN [self |-> kept, ret |-> "ZeroDivisionError"]
             ELSE IF Le(<<Satisfied(memory), self.memory_size>>, self.learning_rate)
                  THEN [self |-> [kept EXCEPT
                                    !.hunting_success = Times09(@),
                                    !.toxicity_threshold = Times09(@)],
                        ret |-> "None"]
                  ELSE [self |-> kept, ret |-> "None"]
        ELSE [self |-> kept, ret |-> "None"]

\* learn that restores hunting_success when the window is back at learning_rate
learn_restoring(self, prey_pattern, outcome) ==
    LET appended == Append(self.memory, <<prey_pattern, outcome>>)
        memory   == IF Len(appended) > self.memory_size THEN Tail(appended) ELSE appended
        kept     == [self EXCEPT !.memory = memory]
    IN  IF Len(memory) = self.memory_size
        THEN IF self.memory_size = 0
             THEN [self |-> kept, ret |-> "ZeroDivisionError"]
             ELSE IF Lt(<<Satisfied(memory), self.memory_size>>, self.learning_rate)
                  THEN [self |-> [kept EXCEPT
                                    !.hunting_success = Times09(@),
                                    !.toxicity_threshold = Times09(@)],
                        ret |-> "None"]
                  ELSE [self |-> [kept EXCEPT !.hunting_success = One], ret |-> "None"]
        ELSE [self |-> kept, ret |-> "None"]

learn(self, prey_pattern, outcome) ==
    LET appended == Append(self.memory, <<prey_pattern, outcome>>)
        memory   == IF Len(appended) > self.memory_size THEN Tail(appended) ELSE appended
        kept     == [self EXCEPT !.memory = memory]
    IN  IF Len(memory) = self.memory_size
        THEN IF self.memory_size = 0
             THEN [self |-> kept, ret |-> "ZeroDivisionError"]
             ELSE IF Lt(<<Satisfied(memory), self.memory_size>>, self.learning_rate)
                  THEN [self |-> [kept EXCEPT
                                    !.hunting_success = Times09(@),
                                    !.toxicity_threshold = Times09(@)],
                        ret |-> "None"]
                  ELSE [self |-> kept, ret |-> "None"]
        ELSE [self |-> kept, ret |-> "None"]

\* get_sick that adds sickness_duration to the ticks still left
get_sick_additive(self) == [self EXCEPT !.sick_timer = @ + self.sickness_duration]

get_sick(self) == [self EXCEPT !.sick_timer = self.sickness_duration]

\* r is the value of random.random()
\* reproduce without the test of prey_eaten against min_prey_eaten
reproduce_unfed(self, min_prey_eaten, r) ==
    IF Lt(r, self.reproduction_rate)
    THEN [self |-> [self EXCEPT !.prey_eaten = 0], ret |-> "True"]
    ELSE [self |-> self, ret |-> "False"]

reproduce(self, min_prey_eaten, r) ==
    IF self.prey_eaten >= min_prey_eaten /\ Lt(r, self.reproduction_rate)
    THEN [self |-> [self EXCEPT !.prey_eaten = 0], ret |-> "True"]
    ELSE [self |-> self, ret |-> "False"]

(* --------------------------- Prey's methods --------------------------- *)

\* a + b, for denominators that are powers of ten
Plus(a, b) ==
    LET d == Max(a[2], b[2]) IN <<a[1] * (d \div a[2]) + b[1] * (d \div b[2]), d>>

\* min(1.0, x)
AtMostOne(x) == IF Le(One, x) THEN One ELSE x

\* the values random.uniform(0.01, 0.1) returns lie in [0.01, 0.1]
UniformValues == {<<5, 100>>, <<10, 100>>}

\* evolve without the ceiling of 1.0
evolve_unclamped(self, predation_pressure, r, u1, u2) ==
    IF Lt(self.evolution_threshold, predation_pressure) /\ Lt(r, self.evolution_probability)
    THEN [self EXCEPT !.aposematic_pattern = Plus(@, u1),
                      !.toxicity = Plus(@, u2)]
    ELSE self

\* evolve also at predation_pressure = evolution_threshold (>= for >)
evolve_at_threshold(self, predation_pressure, r, u1, u2) ==
    IF Le(self.evolution_threshold, predation_pressure) /\ Lt(r, self.evolution_probability)
    THEN [self EXCEPT !.aposematic_pattern = AtMostOne(Plus(@, u1)),
                      !.toxicity = AtMostOne(Plus(@, u2))]
    ELSE self

\* r is the value of random.random(), u1 and u2 those of random.uniform(0.01, 0.1)
evolve(self, predation_pressure, r, u1, u2) ==
    IF Lt(self.evolution_threshold, predation_pressure) /\ Lt(r, self.evolution_probability)
    THEN [self EXCEPT !.aposematic_pattern = AtMostOne(Plus(@, u1)),
                      !.toxicity = AtMostOne(Plus(@, u2))]
    ELSE self

\* grid_size is the pair (width, height)
get_new_position(current_position, grid_size, dx, dy) ==
    << Max(0, Min(current_position[1] + dx, grid_size[1] - 1)),
       Max(0, Min(current_position[2] + dy, grid_size[2] - 1)) >>

\* r is the value of random.random()
prey_move(self, grid_size, r, dx, dy) ==
    IF Lt(r, self.movement_probability)
    THEN LET current_position ==
                 IF Len(self.path) > 0 THEN self.path[Len(self.path)] ELSE <<0, 0>>
         IN  [self EXCEPT !.path =
                 Append(@, get_new_position(current_position, grid_size, dx, dy))]
    ELSE self

(* ----------------------- Environment's methods ------------------------ *)
None == <<"None", 0>>

Cells(width, height) == (0..(width - 1)) \X (0..(height - 1))

\* placed counts the agents place_creatures has placed; pc is where the call is:
\* "none", "placing", "done", or the name of the exception that ended it
NewEnvironment(width, height, num_predators, num_prey) ==
    [ width     |-> width,
      height    |-> height,
      grid      |-> [c \in Cells(width, height) |-> None],
      predators |-> [i \in 1..num_predators |-> <<0, 0>>],
      prey      |-> [i \in 1..num_prey |-> << >>],
      positions |-> {},
      placed    |-> 0,
      pc        |-> IF num_predators + num_prey = 0 THEN "done" ELSE "placing" ]

NoEnv == [NewEnvironment(1, 1, 0, 0) EXCEPT !.pc = "none"]

\* the pairs np.random.randint(0, width - 1), np.random.randint(0, height - 1)
\* can return: the upper bound is exclusive
get_random_location(self) == (0..(self.width - 2)) \X (0..(self.height - 2))

\* one pass of `while True` that places the agent whatever positions holds
place_anywhere(self, x, y) ==
    LET k == self.placed + 1
        N == Len(self.predators)
    IN  [self EXCEPT
           !.predators = IF k <= N THEN [@ EXCEPT ![k] = <<x, y>>] ELSE @,
           !.prey      = IF k > N THEN [@ EXCEPT ![k - N] = <<x, y>>] ELSE @,
           !.positions = @ \cup {<<x, y>>},
           !.grid      = [@ EXCEPT ![<<x, y>>] =
                              IF k <= N THEN <<"Predator", k>> ELSE <<"Prey", k - N>>],
           !.placed    = k,
           !.pc        = IF k = N + Len(self.prey) THEN "done" ELSE "placing"]

\* one pass of `while True` for the next agent of predators, then of prey,
\* with (x, y) the location drawn
place(self, x, y) ==
    IF <<x, y>> \notin self.positions
    THEN LET k == self.placed + 1
             N == Len(self.predators)
         IN  [self EXCEPT
                !.predators = IF k <= N THEN [@ EXCEPT ![k] = <<x, y>>] ELSE @,
                !.prey      = IF k > N THEN [@ EXCEPT ![k - N] = <<x, y>>] ELSE @,
                !.positions = @ \cup {<<x, y>>},
                !.grid      = [@ EXCEPT ![<<x, y>>] =
                                   IF k <= N THEN <<"Predator", k>> ELSE <<"Prey", k - N>>],
                !.placed    = k,
                !.pc        = IF k = N + Len(self.prey) THEN "done" ELSE "placing"]
    ELSE self

is_within_bounds(self, position) ==
    /\ 0 <= position[1] /\ position[1] < self.width
    /\ 0 <= position[2] /\ position[2] < self.height

(* ------------------------------ actions ------------------------------- *)

Init ==
    /\ predator \in Predators
    /\ prey \in Preys
    /\ call = NoCall
    /\ ticks = 0
    /\ env = NoEnv

MoveCall(grid_size) ==
    /\ predator.sick_timer > -MaxBelow
    /\ \E dx \in RandomSteps, dy \in RandomSteps :
          predator' = move(predator, grid_size, dx, dy)
    /\ call' = Call("move", "None", -1, grid_size, -1, Zero, "")
    /\ UNCHANGED <<prey, env>>

Move ==
    /\ \E grid_size \in 1..MaxGrid : MoveCall(grid_size)
    /\ UNCHANGED ticks

DetectPrey ==
    \E distance \in 0..(MaxDist + 1) :
        /\ call' = Call("detect_prey", detect_prey(predator, prey, distance),
                        distance, -1, -1, Zero, "")
        /\ UNCHANGED <<predator, prey, ticks, env>>

Hunt ==
    \E distance \in 0..(MaxDist + 1), r \in RandomValues :
        LET res == hunt(predator, prey, distance, r) IN
        /\ predator.prey_eaten < MaxEaten
        /\ predator' = res.self
        /\ call' = Call("hunt", res.ret, distance, -1, -1, Zero, "")
        /\ UNCHANGED <<prey, ticks, env>>

AvoidPrey ==
    /\ call' = Call("avoid_prey", IF avoid_prey(predator, prey) THEN "True" ELSE "False",
                    -1, -1, -1, Zero, "")
    /\ UNCHANGED <<predator, prey, ticks, env>>

\* the number of times learn has decayed the traits so far
Decays(self) == CHOOSE k \in 0..(MaxDecay + 1) : self.hunting_success[2] = 10 ^ (k + 1)

LearnCall(prey_pattern, outcome) ==
    LET res == learn(predator, prey_pattern, outcome) IN
    /\ Decays(predator) < MaxDecay
    /\ predator' = res.self
    /\ call' = Call("learn", res.ret, -1, -1, -1, prey_pattern, outcome)
    /\ UNCHANGED <<prey, env>>

Learn ==
    /\ \E outcome \in Outcomes : LearnCall(prey.aposematic_pattern, outcome)
    /\ UNCHANGED ticks

GetSickCall ==
    /\ predator' = get_sick(predator)
    /\ call' = Call("get_sick", "None", -1, -1, -1, Zero, "")
    /\ UNCHANGED <<prey, env>>

GetSick ==
    /\ GetSickCall
    /\ UNCHANGED ticks

Reproduce ==
    \E min_prey_eaten \in 0..MaxEaten, r \in RandomValues :
        LET res == reproduce(predator, min_prey_eaten, r) IN
        /\ predator' = res.self
        /\ call' = Call("reproduce", res.ret, -1, -1, min_prey_eaten, Zero, "")
        /\ UNCHANGED <<prey, ticks, env>>

Next ==
    \/ Move
    \/ DetectPrey
    \/ Hunt
    \/ AvoidPrey
    \/ Learn
    \/ GetSick
    \/ Reproduce

Spec == Init /\ [][Next]_vars

\* detection, avoidance and hunting, by healthy and by sick predators
HuntNext ==
    \/ DetectPrey
    \/ AvoidPrey
    \/ Hunt
    \/ GetSick
    \/ Reproduce

HuntSpec == Init /\ [][HuntNext]_vars

\* one get_sick, then one move per tick; ticks counts the moves since get_sick
SickOnce ==
    /\ call.op = "init"
    /\ GetSickCall
    /\ ticks' = 0

TickMove ==
    /\ call.op # "init"
    /\ ticks <= MaxSick
    /\ \E grid_size \in 1..MaxGrid : MoveCall(grid_size)
    /\ ticks' = ticks + 1

SickNext ==
    \/ SickOnce
    \/ TickMove

SickSpec == Init /\ [][SickNext]_vars

\* learn calls only; ticks counts them
LearnPredators ==
    { NewPredator(t[1], lr, Half, Half, 0, ms, t[2], 0) :
        t \in {<<One, Half>>, <<Half, Zero>>}, lr \in {Zero, Half, One},
        ms \in 0..(MaxMem + 1) }

LearnInit ==
    /\ predator \in LearnPredators
    /\ prey = NewPrey(Half, TRUE, Half, Half, 0, Half, Half, Half, Half)
    /\ call = NoCall
    /\ ticks = 0
    /\ env = NoEnv

TickLearn ==
    /\ ticks <= MaxMem + 1
    /\ \E prey_pattern \in {Zero, One}, outcome \in Outcomes :
          LearnCall(prey_pattern, outcome)
    /\ ticks' = ticks + 1

LearnSpec == LearnInit /\ [][TickLearn]_vars

Evolve ==
    \E predation_pressure \in {Zero, Half, One}, r \in RandomValues,
       u1 \in UniformValues, u2 \in UniformValues :
        /\ prey' = evolve(prey, predation_pressure, r, u1, u2)
        /\ call' = [Call("evolve", "None", -1, -1, -1, Zero, "")
                      EXCEPT !.predation_pressure = predation_pressure]
        /\ UNCHANGED <<predator, ticks, env>>

\* the traits that learn and evolve adjust
TraitPreys ==
    { NewPrey(Half, TRUE, pat, <<9, 10>>, 0, Half, Half, ep, Half) :
        pat \in {<<9, 10>>, One}, ep \in {Half, One} }

TraitInit ==
    /\ predator \in LearnPredators
    /\ prey \in TraitPreys
    /\ call = NoCall
    /\ ticks = 0
    /\ env = NoEnv

TraitNext ==
    \/ Learn
    \/ Evolve

TraitSpec == TraitInit /\ [][TraitNext]_vars

\* moves of the predator and of the prey on one grid, the grid_size of the first
\* move; the predator may be made sick first
PreyMoveCall(grid_size) ==
    /\ Len(prey.path) < MaxPath
    /\ \E r \in RandomValues, dx \in RandomSteps, dy \in RandomSteps :
          prey' = prey_move(prey, <<grid_size, grid_size>>, r, dx, dy)
    /\ call' = Call("prey_move", "None", -1, grid_size, -1, Zero, "")
    /\ UNCHANGED <<predator, ticks, env>>

SameGrid(grid_size) == call.grid_size \in {-1, grid_size}

GridMove ==
    \E grid_size \in 1..(MaxGrid + 1) :
        /\ SameGrid(grid_size)
        /\ MoveCall(grid_size)
        /\ UNCHANGED ticks

GridPreyMove ==
    \E grid_size \in 1..(MaxGrid + 1) :
        /\ SameGrid(grid_size)
        /\ PreyMoveCall(grid_size)

MovePredators ==
    { NewPredator(One, Half, Half, Half, 0, 0, Half, sd) : sd \in 0..MaxSick }

MovePreys ==
    { NewPrey(Half, TRUE, Half, Half, 0, mp, Half, Half, Half) : mp \in {Half, One} }

MoveInit ==
    /\ predator \in MovePredators
    /\ prey \in MovePreys
    /\ call = NoCall
    /\ ticks = 0
    /\ env = NoEnv

MoveNext ==
    \/ SickOnce
    \/ GridMove
    \/ GridPreyMove

MoveSpec == MoveInit /\ [][MoveNext]_vars

\* construction of agents from arguments of the declared types, in range or not
ProbabilityArgs == {<<-1, 10>>, Half, <<11, 10>>}

CountArgs == {-1, 0, 1}

ConstructPredator ==
    \E hs \in ProbabilityArgs, lr \in ProbabilityArgs,
       vr \in CountArgs, ms \in CountArgs, sd \in CountArgs :
        /\ predator' = NewPredator(hs, lr, Half, Half, vr, ms, Half, sd)
        /\ call' = Call("Predator", "None", -1, -1, -1, Zero, "")
        /\ UNCHANGED <<prey, ticks, env>>

ConstructPrey ==
    \E c \in ProbabilityArgs, mp \in ProbabilityArgs :
        /\ prey' = NewPrey(c, TRUE, Half, Half, 0, mp, Half, Half, Half)
        /\ call' = Call("Prey", "None", -1, -1, -1, Zero, "")
        /\ UNCHANGED <<predator, ticks, env>>

CtorNext ==
    \/ ConstructPredator
    \/ ConstructPrey

CtorSpec == MoveInit /\ [][CtorNext]_vars

\* Environment(width, height, num_predators, num_prey): Predator() and Prey()
\* are called without their required arguments.  A behaviour holds one
\* Environment: it is constructed, or place_creatures is called on it, once.
EnvironmentCall ==
    \E width \in 1..(MaxGrid + 1), height \in 1..(MaxGrid + 1),
       num_predators \in 0..MaxAgents, num_prey \in 0..MaxAgents :
        /\ env.pc = "none"
        /\ env' = IF num_predators + num_prey > 0
                  THEN [NewEnvironment(width, height, 0, 0) EXCEPT !.pc = "TypeError"]
                  ELSE NewEnvironment(width, height, 0, 0)
        /\ call' = Call("Environment",
                        IF num_predators + num_prey > 0 THEN "TypeError" ELSE "None",
                        -1, -1, -1, Zero, "")
        /\ UNCHANGED <<predator, prey, ticks>>

\* place_creatures() on an Environment whose predators and prey hold agents
PlaceCreaturesCall ==
    \E width \in 1..(MaxGrid + 1), height \in 1..(MaxGrid + 1),
       num_predators \in 0..MaxAgents, num_prey \in 0..MaxAgents :
        /\ env.pc = "none"
        /\ env' = NewEnvironment(width, height, num_predators, num_prey)
        /\ call' = Call("place_creatures", "None", -1, -1, -1, Zero, "")
        /\ UNCHANGED <<predator, prey, ticks>>

\* one pass of a `while True` loop of place_creatures
Draw ==
    /\ env.pc = "placing"
    /\ IF get_random_location(env) = {}
       THEN env' = [env EXCEPT !.pc = "ValueError"]
       ELSE \E xy \in get_random_location(env) : env' = place(env, xy[1], xy[2])
    /\ UNCHANGED <<predator, prey, call, ticks>>

EnvInit ==
    /\ predator = NewPredator(One, Half, Half, Half, 0, 0, Half, 0)
    /\ prey = NewPrey(Half, TRUE, Half, Half, 0, Half, Half, Half, Half)
    /\ call = NoCall
    /\ ticks = 0
    /\ env = NoEnv

EnvNext ==
    \/ EnvironmentCall
    \/ PlaceCreaturesCall
    \/ Draw

EnvSpec == EnvInit /\ [][EnvNext]_vars

\* get_sick called again and again between moves and hunts; ticks counts the calls
RelapsePredators ==
    { NewPredator(One, Half, Half, Half, 0, 0, tt, sd) :
        tt \in {Half, One}, sd \in 0..MaxSick }

RelapseInit ==
    /\ predator \in RelapsePredators
    /\ prey \in MovePreys
    /\ call = NoCall
    /\ ticks = 0
    /\ env = NoEnv

SickAgain ==
    /\ ticks < MaxSick
    /\ GetSickCall
    /\ ticks' = ticks + 1

RelapseNext ==
    \/ SickAgain
    \/ Move
    \/ Hunt

RelapseSpec == RelapseInit /\ [][RelapseNext]_vars

\* every operation of a predator, on a few predators that learn
DecayPredators ==
    { NewPredator(t[1], One, Half, Half, 0, ms, t[2], 1) :
        t \in {<<One, Half>>, <<Half, Zero>>}, ms \in 0..(MaxMem + 1) }

DecayInit ==
    /\ predator \in DecayPredators
    /\ prey = NewPrey(Half, TRUE, Half, Half, 0, Half, Half, Half, Half)
    /\ call = NoCall
    /\ ticks = 0
    /\ env = NoEnv

DecaySpec == DecayInit /\ [][Next]_vars

(* ------------------------------- claims ------------------------------- *)

\* the exceptions an operation can end in
Errors == {"TypeError", "ZeroDivisionError"}

\* the test move makes of sickness (predator_model.py line 115)
Sick(self) == self.sick_timer > 0

\* C1: in every state a predator reaches by move, get_sick, detect_prey, hunt,
\* learn and reproduce calls, sick_timer is >= 0.
C1_SickTimerNonNegative == predator.sick_timer >= 0

\* C2: move called while sick_timer > 0 leaves position unchanged and lowers
\* sick_timer by exactly 1; called while sick_timer = 0 it leaves sick_timer at 0.
C2_MoveSickStaysAndCountsDown ==
    [][ call'.op = "move" =>
          /\ predator.sick_timer > 0 =>
                /\ predator'.position = predator.position
                /\ predator'.sick_timer = predator.sick_timer - 1
          /\ predator.sick_timer = 0 => predator'.sick_timer = 0 ]_vars

\* C3: while sick_timer > 0, detect_prey and hunt return false for every prey and
\* every distance, and hunt leaves prey_eaten unchanged.
C3_SickCannotDetectOrHunt ==
    [][ (predator.sick_timer > 0 /\ call'.op \in {"detect_prey", "hunt"}) =>
          /\ call'.ret = "False"
          /\ predator'.prey_eaten = predator.prey_eaten ]_vars

\* C4: after get_sick on a predator with sickness_duration = d, followed by one move
\* per tick and no further get_sick, sick_timer is 0 after d moves and stays 0.
C4_HealthyAfterDuration ==
    (call.op # "init" /\ ticks >= predator.sickness_duration) => predator.sick_timer = 0

\* C5 as stated: a predator that is not sick detects on every call with
\* distance <= prey.camo_aposematic_distance, unconditionally.
C5_WarningRangeAlwaysDetected ==
    (/\ call.op = "detect_prey"
     /\ ~Sick(predator)
     /\ call.distance <= prey.camo_aposematic_distance) => call.ret = "True"

\* C5 as amended: a predator that is not sick detects on every call with
\* distance <= prey.camo_aposematic_distance and distance <= visual_range
\* (equality included in both), for any detection_probability and camouflage.
C5_WarningRangeDetectedInVisualRange ==
    (/\ call.op = "detect_prey"
     /\ ~Sick(predator)
     /\ call.distance <= prey.camo_aposematic_distance
     /\ call.distance <= predator.visual_range) => call.ret = "True"

C5_Witness ==
    /\ call.op = "detect_prey"
    /\ ~Sick(predator)
    /\ call.distance = prey.camo_aposematic_distance
    /\ call.distance = predator.visual_range
    /\ call.distance > 0
    /\ call.ret = "True"

\* C6: detect_prey returns false on every call with distance > visual_range, for
\* every prey, whatever its camo_aposematic_distance.
C6_BeyondVisualRangeUndetected ==
    (call.op = "detect_prey" /\ call.distance > predator.visual_range) =>
        call.ret = "False"

C6_Witness ==
    /\ call.op = "detect_prey"
    /\ call.distance > predator.visual_range
    /\ call.distance <= prey.camo_aposematic_distance
    /\ call.ret = "False"

\* C7: every operation returns normally, without raising an error, for all valid
\* inputs.
C7_NoOperationRaises == call.ret \notin Errors

\* C8: hunt never returns true unless the detection step for the same predator,
\* prey and distance returned true.
C8_HuntImpliesDetection ==
    (call.op = "hunt" /\ call.ret = "True") =>
        detect_prey(predator, prey, call.distance) = "True"

C8_Witness ==
    /\ call.op = "hunt"
    /\ call.ret = "True"
    /\ predator.prey_eaten = 1

\* C9: avoid_prey returns true if and only if prey.aposematic is true and
\* prey.aposematic_pattern >= predator.toxicity_threshold, false for every other
\* combination, and it changes no state.
C9_AvoidIffAposematicAboveThreshold ==
    [][ call'.op = "avoid_prey" =>
          /\ call'.ret \in {"True", "False"}
          /\ call'.ret = "True" <=>
                (/\ prey.aposematic = TRUE
                 /\ Le(predator.toxicity_threshold, prey.aposematic_pattern))
          /\ predator' = predator
          /\ prey' = prey ]_vars

C9_Witness ==
    /\ call.op = "avoid_prey"
    /\ call.ret = "False"
    /\ prey.aposematic = FALSE
    /\ Lt(predator.toxicity_threshold, prey.aposematic_pattern)

\* C10: whenever avoid_prey is true for a detected prey, hunt returns false
\* whatever hunting_success is, prey_eaten is unchanged and memory gains no entry.
C10_AvoidedPreyNotHunted ==
    [][ (/\ call'.op = "hunt"
         /\ detect_prey(predator, prey, call'.distance) = "True"
         /\ avoid_prey(predator, prey)) =>
          /\ call'.ret = "False"
          /\ predator'.prey_eaten = predator.prey_eaten
          /\ predator'.memory = predator.memory ]_vars

C10_Witness ==
    /\ call.op = "hunt"
    /\ detect_prey(predator, prey, call.distance) = "True"
    /\ avoid_prey(predator, prey)
    /\ predator.hunting_success = One
    /\ call.ret = "False"

\* the last n entries of a sequence, in order
LastN(seq, n) == SubSeq(seq, Max(1, Len(seq) - n + 1), Len(seq))

\* new = old * 0.9
IsTimes09(new, old) == new[1] * 10 * old[2] = 9 * old[1] * new[2]

Eq(a, b) == a[1] * b[2] = b[1] * a[2]

\* C11: after n learn calls memory holds exactly the most recent
\* min(n, memory_size) entries, in insertion order: on overflow the oldest entry is
\* the one evicted.
C11_MemoryKeepsMostRecent ==
    [][ call'.op = "learn" =>
          /\ predator'.memory =
                LastN(Append(predator.memory, <<call'.prey_pattern, call'.outcome>>),
                      predator.memory_size)
          /\ Len(predator'.memory) = Min(ticks', predator.memory_size) ]_vars

C11_Witness ==
    /\ call.op = "learn"
    /\ predator.memory_size >= 2
    /\ ticks = predator.memory_size + 1
    /\ Len(predator.memory) = predator.memory_size
    /\ predator.memory[Len(predator.memory)] = <<One, "death">>
    /\ predator.memory[1] # <<One, "death">>

\* C12: learn multiplies hunting_success and toxicity_threshold by 0.9, once, when
\* after the append and eviction the memory length equals memory_size and
\* satisfied / memory_size < learning_rate; in every other case both are unchanged.
C12_DecayBelowLearningRate ==
    [][ call'.op = "learn" =>
          IF /\ Len(predator'.memory) = predator.memory_size
             /\ Lt(<<Satisfied(predator'.memory), predator.memory_size>>,
                   predator.learning_rate)
          THEN /\ IsTimes09(predator'.hunting_success, predator.hunting_success)
               /\ IsTimes09(predator'.toxicity_threshold, predator.toxicity_threshold)
          ELSE /\ predator'.hunting_success = predator.hunting_success
               /\ predator'.toxicity_threshold = predator.toxicity_threshold ]_vars

\* memory_size calls, every outcome death, learning_rate > 0: both traits at 90%
C12_Witness ==
    /\ call.op = "learn"
    /\ predator.memory_size >= 1
    /\ ticks = predator.memory_size
    /\ \A i \in 1..Len(predator.memory) : predator.memory[i][2] = "death"
    /\ Lt(Zero, predator.learning_rate)
    /\ predator.hunting_success = <<90, 100>>
    /\ predator.toxicity_threshold = <<45, 100>>

\* 0 <= x <= 1
InUnit(x) == Le(Zero, x) /\ Le(x, One)

\* C13: starting inside [0,1], after any sequence of learn and evolve calls
\* hunting_success, toxicity_threshold, aposematic_pattern and toxicity are still
\* inside [0,1].
C13_TraitsStayInUnitInterval ==
    /\ InUnit(predator.hunting_success)
    /\ InUnit(predator.toxicity_threshold)
    /\ InUnit(prey.aposematic_pattern)
    /\ InUnit(prey.toxicity)

C13_Witness ==
    /\ call.op = "evolve"
    /\ prey.aposematic_pattern = One
    /\ prey.toxicity = One
    /\ predator.hunting_success = <<810, 1000>>
    /\ predator.toxicity_threshold = <<405, 1000>>

\* C16: evolve with predationPressure <= evolution_threshold (equality included)
\* modifies no prey field, for any evolution_probability.
C16_NoEvolutionAtOrBelowThreshold ==
    [][ (/\ call'.op = "evolve"
         /\ Le(call'.predation_pressure, prey.evolution_threshold)) =>
          prey' = prey ]_vars

C16_Witness ==
    /\ call.op = "evolve"
    /\ Eq(call.predation_pressure, prey.evolution_threshold)
    /\ prey.evolution_probability = One
    /\ prey.aposematic_pattern = <<9, 10>>

\* 0 <= x < grid_size and 0 <= y < grid_size
InGrid(position, grid_size) ==
    /\ 0 <= position[1] /\ position[1] < grid_size
    /\ 0 <= position[2] /\ position[2] < grid_size

\* each coordinate differs by at most 1
OneStep(from, to) ==
    /\ to[1] - from[1] \in RandomSteps
    /\ to[2] - from[2] \in RandomSteps

\* C14: after any sequence of move calls with the same grid size, every predator
\* position and every entry of the prey's path lies in the grid, and each step
\* changes each coordinate by at most 1.
C14_MovesStayInGrid ==
    [][ call'.op \in {"move", "prey_move"} =>
          /\ InGrid(predator'.position, call'.grid_size)
          /\ OneStep(predator.position, predator'.position)
          /\ \A i \in 1..Len(prey'.path) : InGrid(prey'.path[i], call'.grid_size)
          /\ \A i \in 1..Len(prey'.path) :
                OneStep(IF i = 1 THEN <<0, 0>> ELSE prey'.path[i - 1], prey'.path[i]) ]_vars

C14_Witness ==
    /\ call.op \in {"move", "prey_move"}
    /\ call.grid_size = 3
    /\ predator.position = <<2, 2>>
    /\ Len(prey.path) = 2
    /\ prey.path[2] = <<2, 2>>

\* C15: reproduce(min_prey_eaten) returns False and changes nothing when
\* prey_eaten < min_prey_eaten; otherwise it returns True with prey_eaten reset
\* to 0 or returns False with no change; no other predator field changes.
C15_ReproduceContract ==
    [][ call'.op = "reproduce" =>
          /\ call'.ret \in {"True", "False"}
          /\ predator.prey_eaten < call'.min_prey_eaten => call'.ret = "False"
          /\ predator' = IF call'.ret = "True"
                          THEN [predator EXCEPT !.prey_eaten = 0]
                          ELSE predator ]_vars

C15_Witness ==
    /\ call.op = "reproduce"
    /\ call.ret = "True"
    /\ call.min_prey_eaten = 1
    /\ predator.prey_eaten = 0

\* C20: hunt changes the predator only through prey_eaten, by exactly +1 when it
\* returns True and not at all when it returns False; memory, sick_timer,
\* position, hunting_success, toxicity_threshold and the prey stay as they were.
C20_HuntOnlyCountsPreyEaten ==
    [][ call'.op = "hunt" =>
          /\ call'.ret = "True" => predator'.prey_eaten = predator.prey_eaten + 1
          /\ call'.ret = "False" => predator'.prey_eaten = predator.prey_eaten
          /\ [predator' EXCEPT !.prey_eaten = 0] = [predator EXCEPT !.prey_eaten = 0]
          /\ prey' = prey ]_vars

C20_Witness ==
    /\ call.op = "hunt"
    /\ call.ret = "True"
    /\ predator.prey_eaten = 1
    /\ predator.sickness_duration > 0
    /\ predator.sick_timer = 0

ValidPredator(self) ==
    /\ \A p \in {self.hunting_success, self.learning_rate,
                  self.reproduction_rate, self.detection_probability} :
          Le(Zero, p) /\ Le(p, One)
    /\ self.visual_range >= 0
    /\ self.memory_size >= 0
    /\ self.sickness_duration >= 0

ValidPrey(self) ==
    \A p \in {self.camouflage, self.movement_probability,
              self.evolution_probability, self.reproduction_rate} :
        Le(Zero, p) /\ Le(p, One)

\* C19: no Predator or Prey is constructed with a probability outside [0,1] or
\* a negative visual_range, memory_size or sickness_duration: a constructor
\* that returns normally has produced an agent whose traits are all in range.
C19_NoInvalidAgentConstructed ==
    (call.op \in {"Predator", "Prey"} /\ call.ret = "None") =>
        ValidPredator(predator) /\ ValidPrey(prey)

\* the positions of the agents of an Environment, predators first
AgentPositions(self) == self.predators \o self.prey

\* C17: when placement has finished for N predators and M prey with
\* N + M <= width * height, the agents' positions are pairwise distinct, every
\* one lies inside the grid, and every agent is the occupant of its own cell.
C17_PlacedDistinctInGrid ==
    LET at == AgentPositions(env)
        N  == Len(env.predators)
    IN  (env.pc = "done" /\ Len(at) <= env.width * env.height) =>
            /\ \A i, j \in 1..Len(at) : i # j => at[i] # at[j]
            /\ \A i \in 1..Len(at) : Len(at[i]) = 2 /\ is_within_bounds(env, at[i])
            /\ \A i \in 1..Len(at) :
                  env.grid[at[i]] = IF i <= N THEN <<"Predator", i>> ELSE <<"Prey", i - N>>
            /\ Cardinality({c \in DOMAIN env.grid : env.grid[c] # None}) = Len(at)

C17_Witness ==
    /\ env.pc = "done"
    /\ Len(env.predators) = 2
    /\ Len(env.prey) = 2
    /\ env.prey[2] = <<0, 0>>

\* C18: placement does not loop for ever: while an agent is still to be placed
\* a free cell can be drawn whenever N + M <= width * height, and a placement
\* that cannot go on has ended in a capacity error.
C18_PlacementTerminates ==
    LET n == Len(env.predators) + Len(env.prey) IN
    /\ env.pc = "placing" => get_random_location(env) \ env.positions # {}
    /\ (call.op = "place_creatures" /\ n <= env.width * env.height) =>
            env.pc \in {"placing", "done"}

\* C21: get_sick sets sick_timer to exactly sickness_duration whatever it was
\* before, also on a predator that is already sick, and changes nothing else.
C21_GetSickResetsTimer ==
    [][ call'.op = "get_sick" =>
          /\ predator'.sick_timer = predator.sickness_duration
          /\ [predator' EXCEPT !.sick_timer = 0] = [predator EXCEPT !.sick_timer = 0]
          /\ prey' = prey ]_vars

\* the second get_sick of a predator that has stayed sick since the first
C21_Witness ==
    /\ call.op = "get_sick"
    /\ ticks = 2
    /\ predator.sickness_duration = 2
    /\ predator.sick_timer = 2
    /\ predator.position # <<0, 0>>
    /\ predator.prey_eaten = 1

\* the window learn leaves was already full and its satisfied fraction is below
\* learning_rate
DecayDue ==
    /\ call'.op = "learn"
    /\ call'.ret = "None"
    /\ Len(predator.memory) = predator.memory_size
    /\ Lt(<<Satisfied(predator'.memory), predator.memory_size>>, predator.learning_rate)

\* C22 as stated: hunting_success and toxicity_threshold never increase, only
\* learn changes them, and every learn call on a full memory whose window has a
\* satisfied fraction below learning_rate lowers both of them again.
C22_DecayLowersEveryTime ==
    [][ /\ Le(predator'.hunting_success, predator.hunting_success)
        /\ Le(predator'.toxicity_threshold, predator.toxicity_threshold)
        /\ call'.op # "learn" =>
              /\ predator'.hunting_success = predator.hunting_success
              /\ predator'.toxicity_threshold = predator.toxicity_threshold
        /\ DecayDue =>
              /\ Lt(predator'.hunting_success, predator.hunting_success)
              /\ Lt(predator'.toxicity_threshold, predator.toxicity_threshold) ]_vars

\* C22 amended: hunting_success and toxicity_threshold never increase, only
\* learn changes them, and every learn call on a full memory whose window has a
\* satisfied fraction below learning_rate multiplies both by 0.9 again, which
\* lowers a positive value and leaves a value of 0 at 0.
C22_DecayCompounds ==
    [][ /\ Le(predator'.hunting_success, predator.hunting_success)
        /\ Le(predator'.toxicity_threshold, predator.toxicity_threshold)
        /\ call'.op # "learn" =>
              /\ predator'.hunting_success = predator.hunting_success
              /\ predator'.toxicity_threshold = predator.toxicity_threshold
        /\ DecayDue =>
              /\ IsTimes09(predator'.hunting_success, predator.hunting_success)
              /\ IsTimes09(predator'.toxicity_threshold, predator.toxicity_threshold)
              /\ Lt(Zero, predator.hunting_success) =>
                    Lt(predator'.hunting_success, predator.hunting_success)
              /\ Lt(Zero, predator.toxicity_threshold) =>
                    Lt(predator'.toxicity_threshold, predator.toxicity_threshold) ]_vars

\* two decays, a satisfied outcome learnt since, and the traits still at 81%
C22_Witness ==
    /\ call.op = "learn"
    /\ call.outcome = "satisfied"
    /\ predator.hunting_success = <<810, 1000>>
    /\ predator.toxicity_threshold = <<405, 1000>>

====
